---- MODULE Spec2Model ----
(***************************************************************************)
(* Model of scrape_nara.js: the scrapeNARA run (browser set-up, response   *)
(* observer, the 14-page loop, the write step, browser.close) and the      *)
(* downloadFile helper.  Every action of the scrapeNARA part is the code   *)
(* that runs between two awaits of the single-threaded event loop.         *)
(***************************************************************************)
EXTENDS Integers, Sequences, FiniteSets, TLC

\* ---------------------------------------------------------------- bounds
MaxFaults == 1      \* DOM anomalies / exceptions injected into the page loop
MaxResponses == 3   \* 'response' events delivered to the observer
MaxBody == 3        \* length of the body served to downloadFile

\* ------------------------------------------------------ program constants
PageCount == 14     \* for (let i = 1; i <= 14; i++)
Null == 0           \* imageUrl: null
Empty == 0          \* transcription: ''

Pages == 1 .. PageCount

\* The href / innerText the DOM shows while page k of the record is displayed.
ImageOf(k) == k
TextOf(k) == k

VARIABLES
  pc,             \* await point (or synchronous statement) scrapeNARA is at
  browser,        \* "none" | "open" | "closed"
  closeCalled,    \* browser.close() has been called
  listening,      \* page.on('response', ...) is registered
  i,              \* loop variable
  shown,          \* page of the record the viewer currently displays
  imageUrl,       \* const imageUrl of the current iteration
  transcription,  \* let transcription of the current iteration
  results,        \* const results = []
  apiResponses,   \* const apiResponses = []
  apiFile,        \* api_responses.json
  resultsFile,    \* scrape_results.json
  log,            \* console output
  arrived,        \* responses whose 'response' event fired, in firing order
  inflight,       \* responses whose handler is suspended at await response.json()
  injected,       \* anomalies the DOM / browser produced in the page loop
  dlPc,           \* downloadFile: position
  dlUrl,          \* downloadFile: url argument with the body served there
  dlProtocol,     \* downloadFile: const protocol
  dlReceived,     \* downloadFile: bytes of the response piped so far
  dlFile,         \* downloadFile: the file at filepath
  dlPromise       \* downloadFile: the returned promise

scrapeVars == <<pc, browser, closeCalled, listening, i, shown, imageUrl,
                transcription, results, apiFile, resultsFile, log, injected>>
handlerVars == <<apiResponses, arrived, inflight>>
dlVars == <<dlPc, dlUrl, dlProtocol, dlReceived, dlFile, dlPromise>>
vars == <<scrapeVars, handlerVars, dlVars>>

\* ------------------------------------------------------------- console
LogLine(ev, page, info) == [ev |-> ev, page |-> page, info |-> info]

\* ------------------------------------------------------------- files
NotWritten == [written |-> FALSE, content |-> <<>>]
Written(seq) == [written |-> TRUE, content |-> seq]

\* ------------------------------------------------- environment budget
\* Anomalies and responses are capped; runs that have both are kept short.
Within(f, r) ==
  /\ f <= MaxFaults
  /\ r <= MaxResponses
  /\ (f = 0 \/ r = 0 \/ f + r <= 2)

CanFault == Within(Cardinality(injected) + 1, Len(arrived))
CanRespond == Within(Cardinality(injected), Len(arrived) + 1)

Allowed(o) == o = "ok" \/ CanFault

Inject(step, o) ==
  injected' = IF o = "ok" THEN injected
              ELSE injected \cup {[page |-> i, step |-> step, kind |-> o]}

\* ------------------------------------------------- response observer URLs
\* A URL is the sequence of its path pieces; includes(p) finds p among them.
UrlPatterns == {"/records/", "/transcription", "/contributions"}

SampleUrls ==
  { <<"/proxy/v3", "/records/", "search">>,
    <<"/proxy", "/contributions", "/targetNaId">>,
    <<"/static/", "main.js">> }

Includes(url, p) == \E k \in 1 .. Len(url) : url[k] = p

Matches(url) ==
  Includes(url, "/records/") \/ Includes(url, "/transcription")
    \/ Includes(url, "/contributions")

BodyKinds == {"json", "html"}

\* -------------------------------------------------------------- set-up
IdleDownload ==
  /\ dlPc = "idle"
  /\ dlUrl = [scheme |-> "https", body |-> <<>>]
  /\ dlProtocol = "none"
  /\ dlReceived = 0
  /\ dlFile = [exists |-> FALSE, bytes |-> <<>>]
  /\ dlPromise = "none"

ScrapeStart ==
  /\ pc = "launch"
  /\ browser = "none"
  /\ closeCalled = FALSE
  /\ listening = FALSE
  /\ i = 0
  /\ shown = 1
  /\ imageUrl = Null
  /\ transcription = Empty
  /\ results = <<>>
  /\ apiResponses = <<>>
  /\ apiFile = NotWritten
  /\ resultsFile = NotWritten
  /\ log = <<>>
  /\ arrived = <<>>
  /\ inflight = {}
  /\ injected = {}

Init == ScrapeStart /\ IdleDownload

\* scrapeNARA().catch(console.error)
Rejected(step) ==
  /\ pc' = "rejected"
  /\ log' = Append(log, LogLine("fatal", 0, step))

Launch ==
  /\ pc = "launch"
  /\ \E ok \in BOOLEAN :
       IF ok
         THEN /\ browser' = "open"
              /\ pc' = "newPage"
              /\ log' = log
         ELSE /\ browser' = browser
              /\ Rejected("launch")
  /\ UNCHANGED <<closeCalled, listening, i, shown, imageUrl, transcription,
                 results, apiFile, resultsFile, injected>>
  /\ UNCHANGED <<handlerVars, dlVars>>

NewPage ==
  /\ pc = "newPage"
  /\ \E ok \in BOOLEAN :
       IF ok THEN pc' = "setViewport" /\ log' = log
             ELSE Rejected("newPage")
  /\ UNCHANGED <<browser, closeCalled, listening, i, shown, imageUrl,
                 transcription, results, apiFile, resultsFile, injected>>
  /\ UNCHANGED <<handlerVars, dlVars>>

SetViewport ==
  /\ pc = "setViewport"
  /\ \E ok \in BOOLEAN :
       IF ok THEN pc' = "setRequestInterception" /\ log' = log
             ELSE Rejected("setViewport")
  /\ UNCHANGED <<browser, closeCalled, listening, i, shown, imageUrl,
                 transcription, results, apiFile, resultsFile, injected>>
  /\ UNCHANGED <<handlerVars, dlVars>>

\* On success the observers are registered and page.goto is started.
SetRequestInterception ==
  /\ pc = "setRequestInterception"
  /\ \E ok \in BOOLEAN :
       IF ok
         THEN /\ listening' = TRUE
              /\ pc' = "goto"
              /\ log' = Append(log, LogLine("navigating", 0, ""))
         ELSE /\ listening' = listening
              /\ Rejected("setRequestInterception")
  /\ UNCHANGED <<browser, closeCalled, i, shown, imageUrl, transcription,
                 results, apiFile, resultsFile, injected>>
  /\ UNCHANGED <<handlerVars, dlVars>>

\* Variant: the navigation error is logged and the run goes on.
GotoFails_swallowed ==
  /\ pc' = "evaluateItemData"
  /\ log' = Append(log, LogLine("fatal", 0, "goto"))

GotoFails == Rejected("goto")

\* page.goto followed by the 8 s settle delay.
Goto ==
  /\ pc = "goto"
  /\ \E ok \in BOOLEAN :
       IF ok THEN pc' = "evaluateItemData" /\ log' = log
             ELSE GotoFails
  /\ UNCHANGED <<browser, closeCalled, listening, i, shown, imageUrl,
                 transcription, results, apiFile, resultsFile, injected>>
  /\ UNCHANGED <<handlerVars, dlVars>>

\* The metadata page.evaluate; on success the loop is entered with i = 1.
EvaluateItemData ==
  /\ pc = "evaluateItemData"
  /\ \E ok \in BOOLEAN :
       IF ok
         THEN /\ i' = 1
              /\ pc' = "waitForSelector"
              /\ log' = Append(log, LogLine("processing", 1, ""))
         ELSE /\ i' = i
              /\ Rejected("evaluateItemData")
  /\ UNCHANGED <<browser, closeCalled, listening, shown, imageUrl,
                 transcription, results, apiFile, resultsFile, injected>>
  /\ UNCHANGED <<handlerVars, dlVars>>

\* ------------------------------------------------------------ page loop
\* End of the body of iteration i: i++ and either the next console.log
\* 'Processing page' or, after the last page, the statements up to the write.
PageDone(res, lg) ==
  /\ results' = res
  /\ imageUrl' = Null
  /\ transcription' = Empty
  /\ IF i < PageCount
       THEN /\ i' = i + 1
            /\ pc' = "waitForSelector"
            /\ log' = Append(lg, LogLine("processing", i + 1, ""))
       ELSE /\ i' = i
            /\ pc' = "writeApiResponses"
            /\ log' = Append(lg, LogLine("captured", 0, ""))

\* Variant: the catch records a degraded entry for the page.
PageFailed_records(step) ==
  PageDone(Append(results, [page |-> i, imageUrl |-> Null, transcription |-> Empty]),
           Append(log, LogLine("error", i, step)))

\* Variant: the catch is empty, as the one in the response observer.
PageFailed_silent(step) == PageDone(results, log)

\* Variant: no per-page catch, the exception leaves scrapeNARA.
PageFailed_rethrows(step) ==
  /\ Rejected(step)
  /\ UNCHANGED <<i, imageUrl, transcription, results>>

\* catch (e) { console.log(`Error processing page ${i}:`, e.message) }
PageFailed(step) ==
  PageDone(results, Append(log, LogLine("error", i, step)))

\* results.push({page: i, imageUrl, transcription}) and the two console.log
PushResult(t, lg) ==
  PageDone(Append(results, [page |-> i, imageUrl |-> imageUrl, transcription |-> t]),
           lg \o << LogLine("image", i, IF imageUrl # Null THEN "Found" ELSE "Not found"),
                    LogLine("transcription", i, IF t # Empty THEN "Found" ELSE "Not found") >>)

\* Variant: no inner try/catch, the outer catch handles the exception.
TranscriptionFailed_outer == PageFailed("transcription")

\* catch (e) { console.log(`Could not get transcription for page ${i}`) }
TranscriptionFailed ==
  PushResult(Empty, Append(log, LogLine("noTranscription", i, "")))

WaitForSelector ==
  /\ pc = "waitForSelector"
  /\ \E o \in {"ok", "throw"} :
       /\ Allowed(o)
       /\ Inject("waitForSelector", o)
       /\ IF o = "ok"
            THEN /\ pc' = "click"
                 /\ UNCHANGED <<i, imageUrl, transcription, results, log>>
            ELSE PageFailed("waitForSelector")
  /\ UNCHANGED <<browser, closeCalled, listening, shown, apiFile, resultsFile>>
  /\ UNCHANGED <<handlerVars, dlVars>>

\* page.evaluate that clicks the control of page i, then the 2 s delay.
\* "absent": no button and fewer than i thumbnails, clicked = false.
ClickThumbnail ==
  /\ pc = "click"
  /\ \E o \in {"ok", "absent", "throw"} :
       /\ Allowed(o)
       /\ Inject("click", o)
       /\ shown' = IF o = "ok" THEN i ELSE shown
       /\ IF o = "throw"
            THEN PageFailed("click")
            ELSE /\ pc' = "image"
                 /\ UNCHANGED <<i, imageUrl, transcription, results, log>>
  /\ UNCHANGED <<browser, closeCalled, listening, apiFile, resultsFile>>
  /\ UNCHANGED <<handlerVars, dlVars>>

\* page.evaluate that reads the image URL; then let transcription = ''.
ReadImageUrl ==
  /\ pc = "image"
  /\ \E o \in {"ok", "absent", "throw"} :
       /\ Allowed(o)
       /\ Inject("image", o)
       /\ IF o = "throw"
            THEN PageFailed("image")
            ELSE /\ imageUrl' = IF o = "ok" THEN ImageOf(shown) ELSE Null
                 /\ transcription' = Empty
                 /\ pc' = "tab"
                 /\ UNCHANGED <<i, results, log>>
  /\ UNCHANGED <<browser, closeCalled, listening, shown, apiFile, resultsFile>>
  /\ UNCHANGED <<handlerVars, dlVars>>

\* page.evaluate that looks for the transcription tab and clicks it.
FindTranscriptionTab ==
  /\ pc = "tab"
  /\ \E o \in {"ok", "absent", "throw"} :
       /\ Allowed(o)
       /\ Inject("tab", o)
       /\ CASE o = "ok" ->
                 /\ pc' = "text"
                 /\ UNCHANGED <<i, imageUrl, transcription, results, log>>
            [] o = "absent" -> PushResult(transcription, log)
            [] o = "throw" -> TranscriptionFailed
  /\ UNCHANGED <<browser, closeCalled, listening, shown, apiFile, resultsFile>>
  /\ UNCHANGED <<handlerVars, dlVars>>

\* The 1.5 s delay and the page.evaluate that reads the transcription text.
ReadTranscription ==
  /\ pc = "text"
  /\ \E o \in {"ok", "absent", "throw"} :
       /\ Allowed(o)
       /\ Inject("text", o)
       /\ CASE o = "ok" -> PushResult(TextOf(shown), log)
            [] o = "absent" -> PushResult(Empty, log)
            [] o = "throw" -> TranscriptionFailed
  /\ UNCHANGED <<browser, closeCalled, listening, shown, apiFile, resultsFile>>
  /\ UNCHANGED <<handlerVars, dlVars>>

\* ------------------------------------------------------------ write step
\* fs.writeFileSync('api_responses.json', JSON.stringify(apiResponses))
WriteApiResponses ==
  /\ pc = "writeApiResponses"
  /\ \E ok \in BOOLEAN :
       IF ok
         THEN /\ apiFile' = Written(apiResponses)
              /\ pc' = "writeResults"
              /\ log' = log
         ELSE /\ apiFile' = apiFile
              /\ Rejected("writeApiResponses")
  /\ UNCHANGED <<browser, closeCalled, listening, i, shown, imageUrl,
                 transcription, results, resultsFile, injected>>
  /\ UNCHANGED <<handlerVars, dlVars>>

\* fs.writeFileSync('scrape_results.json', ...) and the call of browser.close()
WriteResults ==
  /\ pc = "writeResults"
  /\ \E ok \in BOOLEAN :
       IF ok
         THEN /\ resultsFile' = Written(results)
              /\ closeCalled' = TRUE
              /\ pc' = "close"
              /\ log' = log
         ELSE /\ resultsFile' = resultsFile
              /\ closeCalled' = closeCalled
              /\ Rejected("writeResults")
  /\ UNCHANGED <<browser, listening, i, shown, imageUrl, transcription,
                 results, apiFile, injected>>
  /\ UNCHANGED <<handlerVars, dlVars>>

\* await browser.close()
Close ==
  /\ pc = "close"
  /\ \E ok \in BOOLEAN :
       IF ok
         THEN /\ browser' = "closed"
              /\ pc' = "done"
              /\ log' = Append(log, LogLine("closed", 0, ""))
         ELSE /\ browser' = browser
              /\ Rejected("close")
  /\ UNCHANGED <<closeCalled, listening, i, shown, imageUrl, transcription,
                 results, apiFile, resultsFile, injected>>
  /\ UNCHANGED <<handlerVars, dlVars>>

\* ------------------------------------------------------ response observer
\* Statements that run without an await in between: no handler code can run.
SyncPcs == {"writeApiResponses", "writeResults"}

\* page.on('response', ...) up to the await: url test and response.json() call.
ResponseArrives ==
  /\ listening
  /\ browser = "open"
  /\ pc \notin SyncPcs
  /\ CanRespond
  /\ \E u \in SampleUrls, b \in BodyKinds :
       /\ arrived' = Append(arrived, [url |-> u, body |-> b])
       /\ inflight' = IF Matches(u) THEN inflight \cup {Len(arrived) + 1}
                      ELSE inflight
  /\ UNCHANGED <<apiResponses, scrapeVars, dlVars>>

\* response.json() resolves: apiResponses.push({url, data})
ParseOk(id) ==
  /\ id \in inflight
  /\ pc \notin SyncPcs
  /\ arrived[id].body = "json"
  /\ browser = "open"
  /\ apiResponses' = Append(apiResponses, [url |-> arrived[id].url, data |-> id])
  /\ inflight' = inflight \ {id}
  /\ UNCHANGED <<arrived, scrapeVars, dlVars>>

\* Variant: the catch appends the response without data.
ParseFail_pushes(id) ==
  /\ id \in inflight
  /\ pc \notin SyncPcs
  /\ arrived[id].body # "json" \/ browser = "closed"
  /\ apiResponses' = Append(apiResponses, [url |-> arrived[id].url, data |-> id])
  /\ inflight' = inflight \ {id}
  /\ UNCHANGED <<arrived, scrapeVars, dlVars>>

\* response.json() rejects (body is not JSON, or the browser is gone):
\* catch (e) { }
ParseFail(id) ==
  /\ id \in inflight
  /\ pc \notin SyncPcs
  /\ arrived[id].body # "json" \/ browser = "closed"
  /\ inflight' = inflight \ {id}
  /\ UNCHANGED <<apiResponses, arrived, scrapeVars, dlVars>>


ScrapeStep ==
  \/ Launch \/ NewPage \/ SetViewport \/ SetRequestInterception
  \/ Goto \/ EvaluateItemData
  \/ WaitForSelector \/ ClickThumbnail \/ ReadImageUrl
  \/ FindTranscriptionTab \/ ReadTranscription
  \/ WriteApiResponses \/ WriteResults \/ Close

HandlerStep ==
  \/ ResponseArrives
  \/ \E id \in 1 .. MaxResponses + 1 : ParseOk(id)
  \/ \E id \in 1 .. MaxResponses + 1 : ParseFail(id)

Next == ScrapeStep \/ HandlerStep

Spec == Init /\ [][Next]_vars

\* ------------------------------------------------------------ downloadFile
Bytes == {0, 1}

RECURSIVE SeqsUpTo(_)
SeqsUpTo(n) ==
  IF n = 0 THEN {<<>>}
  ELSE LET shorter == SeqsUpTo(n - 1)
       IN shorter \cup {Append(s, b) : s \in {t \in shorter : Len(t) = n - 1}, b \in Bytes}

Bodies == SeqsUpTo(MaxBody)

Absent == [exists |-> FALSE, bytes |-> <<>>]

\* url.startsWith('https')
StartsWithHttps(url) == url.scheme = "https"

InitDownload ==
  /\ ScrapeStart
  /\ dlPc = "start"
  /\ dlUrl \in [scheme : {"http", "https"}, body : Bodies]
  /\ dlProtocol = "none"
  /\ dlReceived = 0
  /\ dlFile \in {Absent, [exists |-> TRUE, bytes |-> <<1, 1>>]}
  /\ dlPromise = "none"

\* new Promise, protocol choice, fs.createWriteStream, protocol.get
DlStart ==
  /\ dlPc = "start"
  /\ dlProtocol' = IF StartsWithHttps(dlUrl) THEN "https" ELSE "http"
  /\ dlFile' = [exists |-> TRUE, bytes |-> <<>>]
  /\ dlPromise' = "pending"
  /\ dlPc' = "requesting"
  /\ UNCHANGED <<dlUrl, dlReceived, scrapeVars, handlerVars>>

\* .on('error', err => { fs.unlink(filepath, () => {}); reject(err) })
OnRequestError ==
  /\ dlFile' = Absent
  /\ dlPromise' = IF dlPromise = "pending" THEN "rejected" ELSE dlPromise
  /\ dlPc' = "failed"

\* The request fails before any response: 'error' on the request.
DlRequestError ==
  /\ dlPc = "requesting"
  /\ OnRequestError
  /\ UNCHANGED <<dlUrl, dlProtocol, dlReceived, scrapeVars, handlerVars>>

\* The response callback: response.pipe(file); file.on('finish', ...)
DlResponse ==
  /\ dlPc = "requesting"
  /\ dlPc' = "streaming"
  /\ UNCHANGED <<dlUrl, dlProtocol, dlReceived, dlFile, dlPromise,
                 scrapeVars, handlerVars>>

\* One chunk of the body goes through the pipe into the file.
DlChunk ==
  /\ dlPc = "streaming"
  /\ dlReceived < Len(dlUrl.body)
  /\ dlReceived' = dlReceived + 1
  /\ dlFile' = [dlFile EXCEPT !.bytes = Append(@, dlUrl.body[dlReceived + 1])]
  /\ UNCHANGED <<dlPc, dlUrl, dlProtocol, dlPromise, scrapeVars, handlerVars>>

\* The response ends, the pipe ends the file: 'finish' -> file.close(); resolve()
DlFinish ==
  /\ dlPc = "streaming"
  /\ dlReceived = Len(dlUrl.body)
  /\ dlPromise' = IF dlPromise = "pending" THEN "resolved" ELSE dlPromise
  /\ dlPc' = "finished"
  /\ UNCHANGED <<dlUrl, dlProtocol, dlReceived, dlFile, scrapeVars, handlerVars>>

\* The socket fails while the body is streamed: 'error' on the request.
DlSocketError ==
  /\ dlPc = "streaming"
  /\ dlReceived < Len(dlUrl.body)
  /\ OnRequestError
  /\ UNCHANGED <<dlUrl, dlProtocol, dlReceived, scrapeVars, handlerVars>>

\* The connection is closed before the body is complete: the response is
\* aborted, which no listener of downloadFile observes.
DlAborted ==
  /\ dlPc = "streaming"
  /\ dlReceived < Len(dlUrl.body)
  /\ dlPc' = "stalled"
  /\ UNCHANGED <<dlUrl, dlProtocol, dlReceived, dlFile, dlPromise,
                 scrapeVars, handlerVars>>

NextDownload ==
  \/ DlStart \/ DlRequestError \/ DlResponse \/ DlChunk
  \/ DlFinish \/ DlSocketError \/ DlAborted

SpecDownload == InitDownload /\ [][NextDownload]_vars

\* ================================================================ properties
PagesOf(seq) == {seq[k].page : k \in 1 .. Len(seq)}

Increasing(seq) ==
  \A a, b \in 1 .. Len(seq) : a < b => seq[a].page < seq[b].page

\* Pages whose iteration left the try block through the outer catch.
Dropped ==
  {p \in Pages : \E f \in injected :
     f.page = p /\ f.kind = "throw" /\ f.step \in {"waitForSelector", "click", "image"}}

Logged(ev, page) == \E k \in 1 .. Len(log) : log[k].ev = ev /\ log[k].page = page

Fatal(step) == \E k \in 1 .. Len(log) : log[k].ev = "fatal" /\ log[k].info = step

\* The entry of page p when nothing goes wrong on it.
Nominal(p) == [page |-> p, imageUrl |-> ImageOf(p), transcription |-> TextOf(p)]

OnlyClickThrew(k) == injected = {[page |-> k, step |-> "click", kind |-> "throw"]}

C3_ArrivalOrder ==
  /\ \A a, b \in 1 .. Len(apiResponses) :
       a < b => apiResponses[a].data < apiResponses[b].data
  /\ \A a \in 1 .. Len(apiResponses) :
       \E p \in UrlPatterns : Includes(apiResponses[a].url, p)

\* C4: a matched response whose body is not JSON is never in apiResponses, and
\* the step that settles its parse changes nothing of apiResponses, results,
\* the files, the log or the position of scrapeNARA.
NonJsonSettles ==
  \E id \in inflight \ inflight' : arrived[id].body # "json"

NonJsonNotCaptured ==
  \A a \in 1 .. Len(apiResponses) : arrived[apiResponses[a].data].body = "json"

C4_ParseFailureIgnored ==
  [][ /\ NonJsonNotCaptured'
      /\ NonJsonSettles => UNCHANGED <<apiResponses, scrapeVars>> ]_vars

C4_Witness ==
  /\ pc = "done"
  /\ \E id \in 1 .. Len(arrived) :
       /\ Matches(arrived[id].url)
       /\ arrived[id].body = "html"
       /\ id \notin inflight

\* C5: when scrapeNARA has ended and the browser had been launched,
\* browser.close has been called.
C5_BrowserClosed ==
  (pc \in {"done", "rejected"} /\ browser # "none") => closeCalled

\* C6: after a failed page.goto the run is over, no page was processed, no
\* PageResult exists and neither output file has been written.
C6_GotoFailureAborts ==
  Fatal("goto") =>
    /\ pc = "rejected"
    /\ i = 0
    /\ results = <<>>
    /\ \A p \in Pages : ~Logged("processing", p)
    /\ ~apiFile.written
    /\ ~resultsFile.written

C6_Witness == Fatal("goto") /\ Len(apiResponses) > 0 /\ inflight = {}

\* C7: the pages attempted so far are 1, 2, ... in this order, each once; while
\* the loop runs it is at the last attempted page, and once a page has been
\* attempted the run leaves the loop only to the write step, after page PageCount.
LoopPcs == {"waitForSelector", "click", "image", "tab", "text"}

Attempted == SelectSeq(log, LAMBDA l : l.ev = "processing")

C7_LoopNeverAborts ==
  /\ Len(Attempted) <= PageCount
  /\ \A k \in 1 .. Len(Attempted) : Attempted[k].page = k
  /\ pc \in LoopPcs => i = Len(Attempted) /\ i >= 1
  /\ (Len(Attempted) > 0 /\ pc \notin LoopPcs) =>
       Len(Attempted) = PageCount /\ Logged("captured", 0)

C7_Witness ==
  /\ pc = "done"
  /\ Cardinality({f.page : f \in {g \in injected : g.kind = "throw"}}) = MaxFaults

\* C8: when downloadFile has nothing left to do, its promise is settled; after
\* a failure the file is gone and the promise rejected; the promise is resolved
\* only with the complete body in the file.
C8_DownloadSettles ==
  /\ dlPc \in {"failed", "stalled", "finished"} => dlPromise \in {"resolved", "rejected"}
  /\ dlPc \in {"failed", "stalled"} => ~dlFile.exists /\ dlPromise = "rejected"
  /\ dlPromise = "resolved" => dlFile.exists /\ dlFile.bytes = dlUrl.body

\* C9: a step in which the transcription sub-step throws appends the entry of
\* the page with the imageUrl read and transcription ''; an entry gets a
\* non-empty transcription only from the read that follows a found tab, and
\* that read is reached only from a tab lookup that found and clicked the tab.
TranscriptionThrew ==
  \E f \in injected' \ injected : f.kind = "throw" /\ f.step \in {"tab", "text"}

C9_TranscriptionBestEffort ==
  [][ /\ TranscriptionThrew =>
           results' = Append(results, [page |-> i, imageUrl |-> imageUrl,
                                       transcription |-> Empty])
      /\ (Len(results') > Len(results)
            /\ results'[Len(results')].transcription # Empty) => pc = "text"
      /\ (pc' = "text" /\ pc # "text") => (pc = "tab" /\ injected' = injected)
    ]_vars

C9_Witness ==
  \E n \in 1 .. Len(results) :
    /\ results[n].imageUrl # Null
    /\ results[n].transcription = Empty
    /\ \E f \in injected :
         f.page = results[n].page /\ f.kind = "throw" /\ f.step \in {"tab", "text"}

\* C10: right after api_responses.json is written it holds every response
\* that had arrived, matches a pattern and has a JSON body.
C10_NothingLost ==
  pc = "writeResults" =>
    \A id \in 1 .. Len(arrived) :
      (Matches(arrived[id].url) /\ arrived[id].body = "json") =>
        \E n \in 1 .. Len(apiFile.content) : apiFile.content[n].data = id
====
